---- MODULE Spec2Model ----
(***************************************************************************)
(* A model of the node-mongo data-access layer: the generic CRUD adapter   *)
(* (BaseAdapter), the proximity adapter built on it (UserActivityAdapter)  *)
(* and the connection pool (MongoDB).                                      *)
(*                                                                         *)
(* One adapter call is followed from the synchronous part of the method    *)
(* (projection, hooks, guards) through pool.connect and the single store   *)
(* command to the settlement of the promise handed to the caller.  The     *)
(* store, the pool's client and the entity schema are the environment:     *)
(* their answers are chosen nondeterministically.                          *)
(*                                                                         *)
(* Spec follows the adapter calls, PoolSpec the connect calls racing on    *)
(* the pool, HelpersSpec the functions of MongoHelpers on their inputs,    *)
(* AroundSpec the proximity reads against the contents of the collection,  *)
(* ServiceSpec the callback chain of the service layer (BaseService), and  *)
(* LiveSpec is Spec with connect() and the store always completing.        *)
(***************************************************************************)
EXTENDS Integers, Sequences, FiniteSets, TLC

VARIABLES
    isDebug,           \* the module constant isDebug (config / NODE_ENV)
    hasToQueryObject,  \* the schema defines toQueryObject
    hasBeforeSave,     \* the schema defines beforeSave
    pc,                \* position of the current adapter call
    op,                \* name of the adapter method being executed
    queryParams,       \* the resolved predicate (first argument of the command)
    predSource,        \* which branch derived the predicate
    requestDoc,        \* the derived request document (update body)
    formId,            \* the _id field of the form the predicate came from
    entityId,          \* _id of the entity materialized from the input
    events,            \* order of hooks, projections, guards and commands
    cmds,              \* commands issued to the store, in order
    logs,              \* entries written to the adapter's logger
    outcome,           \* state of the promise handed to the caller
    result,            \* value or error the promise settled with
    primary,           \* state of the primary store command
    answer,            \* what the store answered to the primary command
    logTask,           \* fire-and-forget activity-log insert (proximity upsert)
    indexTask,         \* fire-and-forget createIndex (proximity upsert)
    dbs,               \* pool: cached handle per configuration key
    conns,             \* pool: state of every connect call
    clientConnects,    \* pool: MongoClient.connect invocations per key
    opts,              \* the cursor options passed to getMany
    defaultOrder,      \* the schema's defaultOrder
    helperCall,        \* MongoHelpers: the function called and its arguments
    helperResult,      \* MongoHelpers: what the call returned and left behind
    samples,           \* proximity: the location samples in the collection
    aroundArgs,        \* proximity: geoParams and actParams of the reads
    manyAnswer,        \* proximity: what findManyAround resolved with
    oneAnswer,         \* proximity: what findOneAround resolved with
    service            \* service layer: the call being answered to its callback

envVars  == <<isDebug, hasToQueryObject, hasBeforeSave>>
reqVars  == <<op, queryParams, predSource, formId, requestDoc, opts,
              defaultOrder>>
callVars == <<pc, reqVars, entityId, events, cmds, logs, outcome, result,
              primary, answer>>
sideVars == <<logTask, indexTask>>
poolVars == <<dbs, conns, clientConnects>>
sortVars == <<helperCall, helperResult>>
nearVars == <<samples, aroundArgs, manyAnswer, oneAnswer>>
libVars  == <<sortVars, nearVars, service>>
vars     == <<envVars, libVars, callVars, sideVars, poolVars>>

-----------------------------------------------------------------------------
(* Bounds of the model.                                                    *)

\* largest modifiedCount / deletedCount / number of matching documents
MaxCount == 2
\* number of connect calls made on the pool after its constructor's own
MaxCalls == 2
\* largest skip and limit asked of getMany
MaxPage == 1
\* longest array of order tokens handed to buildOrder
MaxTokens == 2
\* largest number of location samples in the proximity collection
MaxSamples == 2

-----------------------------------------------------------------------------
(* Documents.  A document has the identifier field _id and one data field. *)
(* A field is absent, null, or holds a value; "" is the falsy string.      *)

ABSENT == "absent"
NULL   == "null"

IdVals == {ABSENT, NULL, "", "k1", "k2"}
AVals  == {ABSENT, NULL, "v"}
Docs   == [id : IdVals, a : AVals]

EmptyDoc == [id |-> ABSENT, a |-> ABSENT]

\* a possibly undefined argument
Undef    == [def |-> FALSE, d |-> EmptyDoc]
Def(d)   == [def |-> TRUE, d |-> d]
RawDocs  == {Undef} \cup {Def(d) : d \in Docs}

\* JavaScript truthiness of a field value
Truthy(v) == v \notin {ABSENT, NULL, ""}

\* new ObjectID(hex): the parsed identifier is not the string it came from
ObjectID(v) == IF v = "k1" THEN "ObjectID(k1)"
               ELSE IF v = "k2" THEN "ObjectID(k2)"
               ELSE "ObjectID(invalid)"

\* ObjectID.toString(): back to the hex string
IdToString(o) == IF o = "ObjectID(n1)" THEN "n1"
                 ELSE IF o = "ObjectID(k1)" THEN "k1"
                 ELSE IF o = "ObjectID(k2)" THEN "k2"
                 ELSE o

\* helpers.Data.isEmpty on a plain object: no own keys
isEmptyDoc(d) == d.id = ABSENT /\ d.a = ABSENT

\* helpers.Data.isEmpty on an argument that may be undefined
isEmpty(r) == ~r.def \/ isEmptyDoc(r.d)

\* helpers.Model.toSimpleObject: shallow copy of the non-null fields
toSimpleObject(d) ==
    [id |-> IF d.id = NULL THEN ABSENT ELSE d.id,
     a  |-> IF d.a = NULL THEN ABSENT ELSE d.a]

\* the upsert document of toUpsertObject(): its $setOnInsert sub-document
\* (possibly missing) and whether it carries any other operator
UpsertDocs == [onInsert : RawDocs, hasRest : BOOLEAN]
NoUpsert   == [onInsert |-> Undef, hasRest |-> FALSE]
isEmptyUpsert(u) == ~u.onInsert.def /\ ~u.hasRest

\* the update body handed to the store
NoBody        == [kind |-> "none", doc |-> EmptyDoc, up |-> NoUpsert]
InsertBody(d) == [kind |-> "insert", doc |-> d, up |-> NoUpsert]
SetBody(d)    == [kind |-> "set", doc |-> d, up |-> NoUpsert]
UpsertBody(u) == [kind |-> "upsert", doc |-> EmptyDoc, up |-> u]

\* a command issued on a collection of the store
\* no limit, no skip set on the cursor
NoLimit == 0
NoSkip  == 0

\* a command, with the cursor methods applied to it before it is run: the
\* sort map, the skip and the limit
Cmd(coll, fn, hasFilter, filter, body, limit) ==
    [coll |-> coll, fn |-> fn, hasFilter |-> hasFilter, filter |-> filter,
     body |-> body, limit |-> limit, skip |-> NoSkip, sort |-> <<>>,
     applied |-> IF limit # NoLimit THEN {"limit"} ELSE {}]

\* values a caller's promise settles with
NoResult  == [t |-> "none", n |-> 0, s |-> ""]
Null      == [t |-> "null", n |-> 0, s |-> ""]
Count(n)  == [t |-> "count", n |-> n, s |-> ""]
Bool(b)   == [t |-> "bool", n |-> IF b THEN 1 ELSE 0, s |-> ""]
DocValue  == [t |-> "doc", n |-> 0, s |-> ""]
List(n)   == [t |-> "list", n |-> n, s |-> ""]
Entity(i) == [t |-> "entity", n |-> 0, s |-> i]
Err(k)    == [t |-> "error", n |-> 0, s |-> k]

\* errors a store command can fail with
StoreErrors == {"MongoError", "OtherError"}

\* what the store answers to a command: a count, an identifier, an envelope
StoreResult(n, id, ok, hasValue) ==
    [n |-> n, id |-> id, ok |-> ok, hasValue |-> hasValue]
NoAnswer == StoreResult(0, ABSENT, FALSE, FALSE)

-----------------------------------------------------------------------------
(* Predicate resolution.                                                   *)

Resolved(src, q, fid) == [src |-> src, q |-> q, fid |-> fid]

\* the equality predicate on the parsed identifier
IdentityPredicate(form) == Def([id |-> ObjectID(form.id), a |-> ABSENT])

\* toQueryObject if the schema defines it, else the generic fallback
ResolveProjection(form, tq) ==
    IF hasToQueryObject
      THEN Resolved("schema", tq, form.id)
      ELSE Resolved("fallback", Def(toSimpleObject(form)), form.id)

\* the identifier branch left out
ResolveIdentityNoId(form, tq) == ResolveProjection(form, tq)

\* getOne, exists, deleteOne: the identifier first, then the projections
ResolveIdentity(form, tq) ==
    IF Truthy(form.id)
      THEN Resolved("identity", IdentityPredicate(form), form.id)
      ELSE ResolveProjection(form, tq)

\* a predicate built apart from the upsert document, through the fallback
UpsertPredicateDrift(up) == Def(toSimpleObject(up.onInsert.d))

\* upsertOne: the predicate is the upsert document's $setOnInsert
UpsertPredicate(up) == up.onInsert

\* the beforeSave hook, when the schema defines one
Hook(isInsert) ==
    IF hasBeforeSave
      THEN <<IF isInsert THEN "beforeSave(true)" ELSE "beforeSave(false)">>
      ELSE <<>>

\* the driver function each adapter method asks for
FuncName(o) ==
    CASE o = "insertOne" -> "insertOne"
      [] o \in {"updateOne", "updateOneSimple", "upsertOne", "proxUpsertOne"}
           -> "updateOne"
      [] o \in {"updateMany", "updateAll", "updateAllSimple", "updateManySimple"}
           -> "updateMany"
      [] o \in {"getOne", "getOneSimple"} -> "findOne"
      [] o = "getMany" -> "find"
      [] o \in {"getOneAndUpdate", "getOneAndUpsert"} -> "findOneAndUpdate"
      [] o = "exists" -> "count"
      [] o \in {"deleteOne", "deleteOneSimple"} -> "deleteOne"
      [] o \in {"deleteMany", "deleteManySimple", "deleteAll"} -> "deleteMany"
      [] o \in {"findManyAround", "findOneAround"} -> "aggregate"

\* methods whose promise is built by query(): new BPromise around connect()
QueryOps == {"insertOne", "updateOne", "updateOneSimple", "updateMany",
             "updateAll", "updateAllSimple", "updateManySimple", "upsertOne",
             "getOne", "getOneSimple", "getOneAndUpdate", "getOneAndUpsert",
             "deleteOne", "deleteOneSimple", "deleteMany", "deleteManySimple",
             "deleteAll"}
\* methods that wrap connect() in their own new BPromise
WrappedOps == {"getMany", "exists"}
\* methods of the proximity adapter that return the connect() chain itself
ChainOps == {"proxUpsertOne", "findManyAround", "findOneAround"}

-----------------------------------------------------------------------------
(* MongoHelpers.  A string is the sequence of its characters.  An order is *)
(* undefined, null, a string, an array of strings, a map (the sequence of  *)
(* its entries, in insertion order) or a number.                           *)

Order(t, s, ts, m) == [t |-> t, s |-> s, ts |-> ts, m |-> m]

Undefined  == Order("undefined", <<>>, <<>>, <<>>)
NullOrder  == Order("null", <<>>, <<>>, <<>>)
Number     == Order("number", <<>>, <<>>, <<>>)
Str(s)     == Order("string", s, <<>>, <<>>)
Arr(ts)    == Order("array", <<>>, ts, <<>>)
Map(m)     == Order("object", <<>>, <<>>, m)

\* JavaScript truthiness of an order: the empty string is falsy, an empty
\* array and an empty map are truthy; the number stands for a non-zero one
TruthyOrder(o) ==
    /\ o.t \notin {"undefined", "null"}
    /\ o.t = "string" => o.s # <<>>

\* the directions of a sort map
Asc  == 1
Desc == 0 - 1

Entry(k, v) == [k |-> k, v |-> v]

\* results[k] = v: an existing key keeps its place, a new one goes last
MapPut(m, k, v) ==
    IF \E i \in 1..Len(m) : m[i].k = k
      THEN [i \in 1..Len(m) |-> IF m[i].k = k THEN Entry(k, v) ELSE m[i]]
      ELSE Append(m, Entry(k, v))

\* String.prototype.split(sep)
RECURSIVE split(_, _)
split(s, sep) ==
    IF \A i \in 1..Len(s) : s[i] # sep
      THEN <<s>>
      ELSE LET i == CHOOSE i \in 1..Len(s) :
                        s[i] = sep /\ \A j \in 1..(i - 1) : s[j] # sep
           IN  <<SubSeq(s, 1, i - 1)>> \o split(SubSeq(s, i + 1, Len(s)), sep)

\* String.prototype.trim()
RECURSIVE trim(_)
trim(s) ==
    IF Len(s) > 0 /\ s[1] = " " THEN trim(Tail(s))
    ELSE IF Len(s) > 0 /\ s[Len(s)] = " " THEN trim(SubSeq(s, 1, Len(s) - 1))
    ELSE s

\* element.substr(0, 1) === '-'
Descending(element) == Len(element) > 0 /\ element[1] = "-"

\* the test of the leading '-' made before the element is trimmed
PutElementUntrimmed(results, raw) ==
    IF Descending(raw)
      THEN MapPut(results, trim(Tail(raw)), Desc)
      ELSE MapPut(results, trim(raw), Asc)

\* the body of the forEach of buildArrayFunc
PutElement(results, raw) ==
    LET element == trim(raw)
    IN  IF Descending(element)
          THEN MapPut(results, Tail(element), Desc)
          ELSE MapPut(results, element, Asc)

RECURSIVE forEach(_, _)
forEach(arrs, results) ==
    IF Len(arrs) = 0 THEN results
    ELSE forEach(Tail(arrs), PutElement(results, Head(arrs)))

buildArrayFunc(arrs) == Map(forEach(arrs, <<>>))

\* buildOrder(order); a truthy value that is neither array, object nor
\* string falls through the switch: the function returns undefined
buildOrder(order) ==
    IF ~TruthyOrder(order) THEN NullOrder
    ELSE CASE order.t = "array"  -> buildArrayFunc(order.ts)
           [] order.t = "object" -> order
           [] order.t = "string" -> buildArrayFunc(split(order.s, ","))
           [] OTHER -> Undefined

\* the options object of a read: undefined, or an object whose properties
\* order, sort, skip and limit may each be missing
Opts(def, order, sort, hasSkip, skip, hasLimit, limit) ==
    [def |-> def, order |-> order, sort |-> sort, hasSkip |-> hasSkip,
     skip |-> skip, hasLimit |-> hasLimit, limit |-> limit]

\* no options object was passed
NoOpts == Opts(FALSE, Undefined, Undefined, FALSE, NoSkip, FALSE, NoLimit)

\* what buildSortOptions returns and what it leaves in the caller's object
Built(value, after) == [value |-> value, opts |-> after]

\* the sort option looked at before the order option
buildSortOptionsSortFirst(dOrder, o) ==
    IF TruthyOrder(o.sort) THEN Built(buildOrder(o.sort), o)
    ELSE IF TruthyOrder(o.order)
      THEN Built(buildOrder(o.order), [o EXCEPT !.order = Undefined])
    ELSE IF TruthyOrder(dOrder) THEN Built(buildOrder(dOrder), o)
    ELSE Built(NullOrder, o)

\* buildSortOptions(model, opts), dOrder being model.defaultOrder
buildSortOptions(dOrder, o) ==
    IF TruthyOrder(o.order)
      THEN Built(buildOrder(o.order), [o EXCEPT !.order = Undefined])
    ELSE IF TruthyOrder(o.sort) THEN Built(buildOrder(o.sort), o)
    ELSE IF TruthyOrder(dOrder) THEN Built(buildOrder(dOrder), o)
    ELSE Built(NullOrder, o)

-----------------------------------------------------------------------------
(* The synchronous part of an adapter method.                              *)

\* verdict "ok": the method went on to connect(); otherwise it threw
BeginWith(o, r, body, ev, ent, verdict, options, dOrder) ==
    /\ pc = "idle"
    /\ op' = o
    /\ opts' = options
    /\ defaultOrder' = dOrder
    /\ queryParams' = r.q
    /\ predSource' = r.src
    /\ formId' = r.fid
    /\ requestDoc' = body
    /\ entityId' = ent
    /\ cmds' = <<>>
    /\ logs' = <<>>
    /\ primary' = "none"
    /\ answer' = NoAnswer
    /\ IF verdict = "ok"
         THEN /\ pc' = "connecting"
              /\ events' = ev \o <<"connect">>
              /\ outcome' = "none"
              /\ result' = NoResult
         ELSE /\ pc' = "done"
              /\ events' = ev \o <<"throw">>
              /\ outcome' = "thrown"
              /\ result' = Err(verdict)
    /\ UNCHANGED <<envVars, libVars, sideVars, poolVars>>

\* a method without cursor options
Begin(o, r, body, ev, ent, verdict) ==
    BeginWith(o, r, body, ev, ent, verdict, NoOpts, Undefined)

Guard(ok) == IF ok THEN "ok" ELSE "GuardViolation"

\* the options a caller passes to getMany: none, or an object with any of
\* order, sort, skip and limit; 0 is a skip or a limit that asks for nothing
CursorOpts ==
    {NoOpts} \cup
    {Opts(TRUE, order, sort, hasSkip, skip, hasLimit, limit) :
        order \in {Undefined, Str(<<"-", "a">>)},
        sort \in {Undefined, Map(<<Entry(<<"b">>, Asc)>>)},
        hasSkip \in BOOLEAN, skip \in 0..MaxPage,
        hasLimit \in BOOLEAN, limit \in 0..MaxPage}

\* the defaultOrder a schema may define
DefaultOrders == {Undefined, Arr(<< <<"a">> >>)}

NoPredicate == Resolved("none", Undef, ABSENT)
Literal     == Resolved("literal", Def(EmptyDoc), ABSENT)

insertOne ==
    /\ pc = "idle"
    /\ \E doc \in Docs :
           Begin("insertOne", NoPredicate, InsertBody(doc),
                 Hook(TRUE) \o <<"toInsertObject">>, ABSENT,
                 Guard(~isEmptyDoc(doc)))

updateOne ==
    /\ pc = "idle"
    /\ \E params \in Docs, tq \in RawDocs, doc \in Docs :
           LET r == ResolveProjection(params, tq)
           IN  Begin("updateOne", r, SetBody(doc),
                     <<"query">> \o Hook(FALSE) \o <<"toFormObject">>, ABSENT,
                     Guard(~isEmpty(r.q) /\ ~isEmptyDoc(doc)))

updateOneSimple ==
    /\ pc = "idle"
    /\ \E form \in Docs, query \in RawDocs :
           Begin("updateOneSimple",
                 Resolved("fallback", Def(toSimpleObject(query.d)), query.d.id),
                 SetBody(toSimpleObject(form)), <<"query">>, ABSENT,
                 Guard(query.def))

updateMany ==
    /\ pc = "idle"
    /\ \E params \in Docs, tq \in RawDocs, doc \in Docs :
           LET r == ResolveProjection(params, tq)
           IN  Begin("updateMany", r, SetBody(doc),
                     <<"query">> \o Hook(FALSE) \o <<"toFormObject">>, ABSENT,
                     Guard(~isEmpty(r.q) /\ ~isEmptyDoc(doc)))

updateAll ==
    /\ pc = "idle"
    /\ \E doc \in Docs :
           Begin("updateAll", Literal, SetBody(doc),
                 Hook(FALSE) \o <<"toFormObject">>, ABSENT,
                 Guard(~isEmptyDoc(doc)))

updateAllSimple ==
    /\ pc = "idle"
    /\ \E params \in Docs :
           Begin("updateAllSimple", Literal, SetBody(toSimpleObject(params)),
                 <<>>, ABSENT, Guard(~isEmptyDoc(toSimpleObject(params))))

updateManySimple ==
    /\ pc = "idle"
    /\ \E form \in Docs, query \in RawDocs :
           Begin("updateManySimple",
                 Resolved("fallback", Def(toSimpleObject(query.d)), query.d.id),
                 SetBody(toSimpleObject(form)), <<"query">>, ABSENT,
                 Guard(~isEmpty(query)))

upsertOne ==
    /\ pc = "idle"
    /\ \E model \in Docs, up \in UpsertDocs :
           Begin("upsertOne", Resolved("onInsert", UpsertPredicate(up), ABSENT),
                 UpsertBody(up), Hook(TRUE) \o <<"toUpsertObject">>, model.id,
                 Guard(~isEmpty(UpsertPredicate(up)) /\ ~isEmptyUpsert(up)))

getOne ==
    /\ pc = "idle"
    /\ \E form \in Docs, tq \in RawDocs :
           Begin("getOne", ResolveIdentity(form, tq), NoBody, <<"query">>,
                 ABSENT, "ok")

getOneSimple ==
    /\ pc = "idle"
    /\ \E form \in Docs :
           Begin("getOneSimple", Resolved("fallback", Def(toSimpleObject(form)), form.id),
                 NoBody, <<"query">>, ABSENT,
                 Guard(~isEmptyDoc(toSimpleObject(form))))

\* the predicate of getMany and exists is derived, and guarded, only in the
\* connect() callback: the call itself always reaches connect()
getMany ==
    /\ pc = "idle"
    /\ \E form \in Docs, tq \in RawDocs, o \in CursorOpts,
          dOrder \in DefaultOrders :
           BeginWith("getMany", ResolveProjection(form, tq), NoBody, <<>>,
                     ABSENT, "ok", o, dOrder)

exists ==
    /\ pc = "idle"
    /\ \E form \in Docs, tq \in RawDocs :
           Begin("exists", ResolveIdentity(form, tq), NoBody, <<>>, ABSENT, "ok")

getOneAndUpdate ==
    /\ pc = "idle"
    /\ \E query \in Docs, tq \in RawDocs, doc \in Docs :
           LET r == ResolveProjection(query, tq)
           IN  Begin("getOneAndUpdate", r, SetBody(doc),
                     <<"query">> \o Hook(FALSE) \o <<"toFormObject">>, ABSENT,
                     Guard(~isEmpty(r.q) /\ ~isEmptyDoc(doc)))

\* opts.upsert = true is a TypeError when no opts object was passed
getOneAndUpsert ==
    /\ pc = "idle"
    /\ \E query \in Docs, tq \in RawDocs, up \in UpsertDocs, hasOpts \in BOOLEAN :
           LET r == ResolveProjection(query, tq)
           IN  Begin("getOneAndUpsert", r, UpsertBody(up),
                     <<"query">> \o Hook(FALSE) \o <<"toUpsertObject">>, ABSENT,
                     IF ~hasOpts THEN "TypeError"
                     ELSE Guard(~isEmpty(r.q) /\ ~isEmptyUpsert(up)))

deleteOne ==
    /\ pc = "idle"
    /\ \E form \in Docs, tq \in RawDocs :
           LET r == ResolveIdentity(form, tq)
           IN  Begin("deleteOne", r, NoBody, <<"query">>, ABSENT,
                     Guard(~isEmpty(r.q)))

deleteOneSimple ==
    /\ pc = "idle"
    /\ \E form \in Docs :
           Begin("deleteOneSimple",
                 Resolved("fallback", Def(toSimpleObject(form)), form.id), NoBody,
                 <<"query">>, ABSENT, Guard(~isEmptyDoc(toSimpleObject(form))))

deleteMany ==
    /\ pc = "idle"
    /\ \E form \in Docs, tq \in RawDocs :
           LET r == ResolveProjection(form, tq)
           IN  Begin("deleteMany", r, NoBody, <<"query">>, ABSENT,
                     Guard(~isEmpty(r.q)))

deleteManySimple ==
    /\ pc = "idle"
    /\ \E form \in Docs :
           Begin("deleteManySimple",
                 Resolved("fallback", Def(toSimpleObject(form)), form.id), NoBody,
                 <<"query">>, ABSENT, Guard(~isEmptyDoc(toSimpleObject(form))))

deleteAll ==
    /\ pc = "idle"
    /\ Begin("deleteAll", Literal, NoBody, <<>>, ABSENT, "ok")


\* the proximity adapter's upsertOne: the two models are built, then connect()
proxUpsertOne ==
    /\ pc = "idle"
    /\ \E model \in Docs :
           Begin("proxUpsertOne", NoPredicate, NoBody, <<>>, model.id, "ok")

\* findAroundQuery: the activity filter merged into the geo stage
findAroundQuery(activity) ==
    Def([id |-> ABSENT, a |-> IF activity = NULL THEN ABSENT ELSE activity])

findManyAround ==
    /\ pc = "idle"
    /\ \E activity \in {NULL, "v"} :
           Begin("findManyAround", Resolved("geo", findAroundQuery(activity), ABSENT),
                 NoBody, <<>>, ABSENT, "ok")

findOneAround ==
    /\ pc = "idle"
    /\ \E activity \in {NULL, "v"} :
           Begin("findOneAround", Resolved("geo", findAroundQuery(activity), ABSENT),
                 NoBody, <<>>, ABSENT, "ok")

-----------------------------------------------------------------------------
(* connect() settles.                                                      *)

LogEntry(level, about, err, ctx) ==
    [level |-> level, about |-> about, err |-> err, ctx |-> ctx]

\* limit(1) of exists and of findOneAround
ExistsLimit == 1
AroundLimit == 1

\* the limit each method sets on its cursor
CursorLimit(o) ==
    IF o = "exists" THEN ExistsLimit
    ELSE IF o = "findOneAround" THEN AroundLimit
    ELSE NoLimit

\* the command a method issues once it holds the collection
PrimaryCmd(o, q, body) ==
    Cmd("main", FuncName(o), o # "insertOne", q, body, CursorLimit(o))

\* the skip option ignored
CursorNoSkip(c, dOrder, o) ==
    LET sortOptions == buildSortOptions(dOrder, o).value
    IN  [c EXCEPT !.sort = IF TruthyOrder(sortOptions) THEN sortOptions.m
                           ELSE <<>>,
                  !.limit = IF o.hasLimit /\ o.limit # 0 THEN o.limit
                            ELSE NoLimit,
                  !.applied = (IF TruthyOrder(sortOptions) THEN {"sort"} ELSE {})
                       \cup (IF o.hasLimit /\ o.limit # 0 THEN {"limit"} ELSE {})]

\* getMany: cursor.sort, cursor.skip and cursor.limit, each under its test
Cursor(c, dOrder, o) ==
    LET sortOptions == buildSortOptions(dOrder, o).value
    IN  [c EXCEPT !.sort = IF TruthyOrder(sortOptions) THEN sortOptions.m
                           ELSE <<>>,
                  !.skip = IF o.hasSkip /\ o.skip # 0 THEN o.skip ELSE NoSkip,
                  !.limit = IF o.hasLimit /\ o.limit # 0 THEN o.limit
                            ELSE NoLimit,
                  !.applied = (IF TruthyOrder(sortOptions) THEN {"sort"} ELSE {})
                       \cup (IF o.hasSkip /\ o.skip # 0 THEN {"skip"} ELSE {})
                       \cup (IF o.hasLimit /\ o.limit # 0 THEN {"limit"} ELSE {})]

\* the command of getMany and exists once the cursor is set up
WrappedCmd(o, q, body, dOrder, options) ==
    IF o = "getMany" THEN Cursor(PrimaryCmd(o, q, body), dOrder, options)
    ELSE PrimaryCmd(o, q, body)

\* the promise stays pending for ever: nothing settles it any more
Abandon(ev) ==
    /\ pc' = "done"
    /\ outcome' = "pending"
    /\ events' = events \o ev
    /\ UNCHANGED <<reqVars, entityId, cmds, logs, result, primary, answer>>

Issue(c, ev) ==
    /\ pc' = "issued"
    /\ primary' = "issued"
    /\ cmds' = Append(cmds, c)
    /\ events' = events \o ev \o <<"command">>
    /\ UNCHANGED <<reqVars, entityId, logs, outcome, result, answer>>

\* query(): the connect callback issues collection[funcName](...args)
QueryConnected ==
    /\ pc = "connecting"
    /\ op \in QueryOps
    /\ Issue(PrimaryCmd(op, queryParams, requestDoc), <<>>)
    /\ UNCHANGED <<envVars, libVars, sideVars, poolVars>>

\* getMany, exists: the guard runs inside the connect callback; when it
\* throws, the callback's promise is rejected and resolve/reject never run
WrappedConnected ==
    /\ pc = "connecting"
    /\ op \in WrappedOps
    /\ IF isEmpty(queryParams)
         THEN Abandon(<<"query", "throw">>)
         ELSE Issue(WrappedCmd(op, queryParams, requestDoc, defaultOrder,
                               opts), <<"query">>)
    /\ UNCHANGED <<envVars, libVars, sideVars, poolVars>>

\* findManyAround, findOneAround: the pipeline is built and aggregated
AroundConnected ==
    /\ pc = "connecting"
    /\ op \in {"findManyAround", "findOneAround"}
    /\ Issue(PrimaryCmd(op, queryParams, requestDoc), <<"query">>)
    /\ UNCHANGED <<envVars, libVars, sideVars, poolVars>>

\* the predicate of the proximity upsert command
ProxUpsertPredicate(up) == up.onInsert

\* proximity upsertOne, connect callback: the hooks and projections of both
\* models run here; an exception thrown by the log model's hook or
\* projection rejects the returned promise before any command is issued
ProxUpsertConnected ==
    /\ pc = "connecting"
    /\ op = "proxUpsertOne"
    /\ \E up \in UpsertDocs, logPrepThrows \in BOOLEAN :
        IF logPrepThrows
          THEN /\ pc' = "done"
               /\ outcome' = "rejected"
               /\ result' = Err("LogModelError")
               /\ events' = events \o <<"logModel", "throw">>
               /\ UNCHANGED <<reqVars, entityId, cmds, logs, primary,
                              sideVars, answer>>
          ELSE /\ pc' = "issued"
               /\ primary' = "issued"
               /\ queryParams' = ProxUpsertPredicate(up)
               /\ predSource' = "onInsert"
               /\ requestDoc' = UpsertBody(up)
               /\ cmds' = Append(cmds,
                     PrimaryCmd(op, ProxUpsertPredicate(up), UpsertBody(up)))
               /\ events' = events \o <<"logModel">> \o Hook(TRUE)
                              \o <<"toUpsertObject", "logQuery", "command">>
               /\ logTask' = "connecting"
               /\ UNCHANGED <<op, formId, opts, defaultOrder, entityId, logs,
                              outcome, result, answer, indexTask>>
    /\ UNCHANGED <<envVars, libVars, poolVars>>

\* pool.connect rejects (or, for a non-store error in debug mode, never
\* settles).  query(), getMany and exists attach no rejection handler inside
\* their promise constructor; the proximity methods return the chain itself
ConnectFailed ==
    /\ pc = "connecting"
    /\ \E e \in StoreErrors :
        IF op \in ChainOps /\ ~(isDebug /\ e = "OtherError")
          THEN /\ pc' = "done"
               /\ outcome' = "rejected"
               /\ result' = Err(e)
               /\ events' = events \o <<"connectFailed">>
               /\ UNCHANGED <<reqVars, entityId, cmds, logs, primary, answer>>
          ELSE Abandon(<<"connectFailed">>)
    /\ UNCHANGED <<envVars, libVars, sideVars, poolVars>>


-----------------------------------------------------------------------------
(* The store answers the primary command.                                  *)

\* the comparison off by one
ExistsResultOffByOne(count) == Bool(count > 1)

\* exists: resolve(count > 0)
ExistsResult(count) == Bool(count > 0)

\* the envelope's ok flag ignored
UnwrapEnvelopeNoOk(sr) == IF sr.hasValue THEN DocValue ELSE Null

\* getOneAndUpdate, getOneAndUpsert: null unless ok, else the value
UnwrapEnvelope(sr) ==
    IF ~sr.ok THEN Null
    ELSE IF sr.hasValue THEN DocValue ELSE Null

\* upsertOne: _id is set only when the store reports an upserted identifier
UpsertEntity(sr, ent) ==
    Entity(IF sr.id # ABSENT THEN IdToString(sr.id) ELSE ent)

\* proximity upsertOne: _id is assigned result.upsertedId as it is
ProxUpsertEntity(sr, ent) ==
    Entity(IF sr.id # ABSENT THEN sr.id ELSE "undefined")

Min(a, b) == IF a < b THEN a ELSE b

\* what the store can answer to the command of each method; a count or an
\* aggregation under a limit answers with no more than the limit
StoreResults(o) ==
    CASE o = "insertOne" -> {StoreResult(0, "ObjectID(n1)", TRUE, FALSE)}
      [] o \in {"upsertOne", "proxUpsertOne"} ->
           {StoreResult(0, i, TRUE, FALSE) : i \in {ABSENT, "ObjectID(n1)"}}
      [] o \in {"getOne", "getOneSimple"} ->
           {StoreResult(0, ABSENT, TRUE, h) : h \in BOOLEAN}
      [] o \in {"getOneAndUpdate", "getOneAndUpsert"} ->
           {StoreResult(0, ABSENT, k, h) : k \in BOOLEAN, h \in BOOLEAN}
      [] o \in {"exists", "findOneAround"} ->
           {StoreResult(Min(m, CursorLimit(o)), ABSENT, TRUE, FALSE) :
               m \in 0..MaxCount}
      [] o = "getMany" ->
           {StoreResult(IF cmds[1].limit # NoLimit
                          THEN Min(m, cmds[1].limit) ELSE m,
                        ABSENT, TRUE, FALSE) : m \in 0..MaxCount}
      [] OTHER -> {StoreResult(n, ABSENT, TRUE, FALSE) : n \in 0..MaxCount}

\* the value each method resolves its promise with
Normalize(o, sr, ent) ==
    CASE o = "insertOne" -> Entity(sr.id)
      [] o = "upsertOne" -> UpsertEntity(sr, ent)
      [] o = "proxUpsertOne" -> ProxUpsertEntity(sr, ent)
      [] o \in {"getOne", "getOneSimple"} ->
           IF sr.hasValue THEN DocValue ELSE Null
      [] o \in {"getOneAndUpdate", "getOneAndUpsert"} -> UnwrapEnvelope(sr)
      [] o = "exists" -> ExistsResult(sr.n)
      [] o \in {"getMany", "findManyAround"} -> List(sr.n)
      [] o = "findOneAround" -> IF sr.n > 0 THEN DocValue ELSE Null
      [] OTHER -> Count(sr.n)

\* getMany reports its success on the error level
SuccessLog(o) ==
    IF o = "getMany" THEN <<LogEntry("error", "success", "none", FALSE)>>
    ELSE <<>>

StoreResolved ==
    /\ pc = "issued"
    /\ \E sr \in StoreResults(op) :
        /\ result' = Normalize(op, sr, entityId)
        /\ answer' = sr
        /\ entityId' = IF op \in {"insertOne", "upsertOne", "proxUpsertOne"}
                         THEN Normalize(op, sr, entityId).s
                         ELSE entityId
    /\ pc' = "done"
    /\ primary' = "ok"
    /\ outcome' = "resolved"
    /\ logs' = logs \o SuccessLog(op)
    /\ events' = events \o <<"resolve">>
    /\ IF op = "proxUpsertOne"
         THEN /\ cmds' = Append(cmds,
                    Cmd("main", "createIndex", FALSE, Undef, NoBody, NoLimit))
              /\ indexTask' = "issued"
              /\ UNCHANGED logTask
         ELSE UNCHANGED <<cmds, sideVars>>
    /\ UNCHANGED <<reqVars, envVars, libVars, poolVars>>

\* what the handlers of a rejected store command write to the log: the
\* MongoError handler and catchException both log the error with the
\* request; the proximity methods attach no handler
RejectionLog(o, e) ==
    IF o \in ChainOps THEN <<>>
    ELSE <<LogEntry("error", "primary", e, TRUE)>>

\* whether the caller's promise is rejected: catchException rethrows in
\* debug mode, so reject(e) is never reached
RejectionSettles(o, e) ==
    o \in ChainOps \/ e = "MongoError" \/ ~isDebug

\* a store failure answered by issuing the command again
StoreRejectedRetry ==
    /\ pc = "issued"
    /\ Len(cmds) < 3
    /\ cmds' = Append(cmds, cmds[Len(cmds)])
    /\ events' = events \o <<"command">>
    /\ UNCHANGED <<reqVars, pc, entityId, logs, outcome, result, primary,
                   envVars, libVars, sideVars, poolVars, answer>>

\* a failed command followed by the index creation all the same
StoreRejectedCreatesIndex ==
    /\ pc = "issued"
    /\ \E e \in StoreErrors :
        /\ primary' = e
        /\ logs' = logs \o RejectionLog(op, e)
        /\ outcome' = "rejected"
        /\ result' = Err(e)
        /\ events' = events \o <<"reject">>
    /\ pc' = "done"
    /\ IF op = "proxUpsertOne"
         THEN /\ cmds' = Append(cmds,
                    Cmd("main", "createIndex", FALSE, Undef, NoBody, NoLimit))
              /\ indexTask' = "issued"
              /\ UNCHANGED logTask
         ELSE UNCHANGED <<cmds, sideVars>>
    /\ UNCHANGED <<reqVars, entityId, envVars, libVars, poolVars, answer>>

StoreRejected ==
    /\ pc = "issued"
    /\ \E e \in StoreErrors :
        /\ primary' = e
        /\ logs' = logs \o RejectionLog(op, e)
        /\ IF RejectionSettles(op, e)
             THEN /\ outcome' = "rejected"
                  /\ result' = Err(e)
                  /\ events' = events \o <<"reject">>
             ELSE /\ outcome' = "pending"
                  /\ result' = result
                  /\ events' = events \o <<"throw">>
    /\ pc' = "done"
    /\ UNCHANGED <<reqVars, entityId, cmds, envVars, libVars, sideVars, poolVars,
                   answer>>

-----------------------------------------------------------------------------
(* The fire-and-forget tasks of the proximity upsertOne.                   *)

\* the documents the log model's toInsertObject can produce
LogDocs == {EmptyDoc, [id |-> ABSENT, a |-> "v"]}

\* logAdapter.query: the log adapter's connect resolved, insertOne is issued
LogConnected ==
    /\ logTask = "connecting"
    /\ \E d \in LogDocs :
        cmds' = Append(cmds, Cmd("log", "insertOne", FALSE, Undef,
                                  InsertBody(d), NoLimit))
    /\ logTask' = "issued"
    /\ UNCHANGED <<reqVars, envVars, libVars, pc, entityId, events, logs, outcome,
                   result, primary, indexTask, poolVars, answer>>

\* the log adapter's connect failed: its query promise stays pending
LogConnectFailed ==
    /\ logTask = "connecting"
    /\ logTask' = "connectFailed"
    /\ UNCHANGED <<envVars, libVars, callVars, indexTask, poolVars>>

LogInserted ==
    /\ logTask = "issued"
    /\ logTask' = "ok"
    /\ UNCHANGED <<envVars, libVars, callVars, indexTask, poolVars>>

\* the log insert failed: query() logs it, the rejection has no handler
LogInsertFailed ==
    /\ logTask = "issued"
    /\ \E e \in StoreErrors :
        logs' = Append(logs, LogEntry("error", "log", e, TRUE))
    /\ logTask' = "failed"
    /\ UNCHANGED <<reqVars, envVars, libVars, pc, entityId, events, cmds, outcome,
                   result, primary, indexTask, poolVars, answer>>

IndexCreated ==
    /\ indexTask = "issued"
    /\ indexTask' = "ok"
    /\ logs' = Append(logs, LogEntry("info", "index", "none", FALSE))
    /\ UNCHANGED <<reqVars, envVars, libVars, pc, entityId, events, cmds, outcome,
                   result, primary, logTask, poolVars, answer>>

\* createIndex failed: the promise has no rejection handler at all
IndexFailed ==
    /\ indexTask = "issued"
    /\ indexTask' = "failed"
    /\ UNCHANGED <<envVars, libVars, callVars, logTask, poolVars>>

-----------------------------------------------------------------------------
(* Calls of MongoHelpers.                                                  *)

HelperCall(fn, order, o, dOrder) ==
    [fn |-> fn, order |-> order, opts |-> o, dOrder |-> dOrder]

\* the order tokens tried: plain, descending, padded, empty, a lone '-',
\* a '-' followed by a blank, and one holding a comma
Tokens == {<<"a">>, <<"-", "a">>, <<" ", "a">>, <<" ", "-", "a">>,
           <<"b", " ">>, <<"-", "b">>, <<"-", " ", "b">>, <<>>, <<"-">>,
           <<"a", ",", "b">>}

RECURSIVE SeqsUpTo(_, _)
SeqsUpTo(S, n) ==
    IF n = 0 THEN {<<>>}
    ELSE LET shorter == SeqsUpTo(S, n - 1)
         IN  shorter \cup {Append(q, x) : q \in shorter, x \in S}

TokenArrays == SeqsUpTo(Tokens, MaxTokens)

\* Array.prototype.join(sep)
RECURSIVE join(_, _)
join(ts, sep) ==
    IF Len(ts) = 0 THEN <<>>
    ELSE IF Len(ts) = 1 THEN ts[1]
    ELSE ts[1] \o <<sep>> \o join(Tail(ts), sep)

\* the values handed to buildOrder
Orders ==
    {Undefined, NullOrder, Number}
      \cup {Arr(ts) : ts \in TokenArrays}
      \cup {Str(join(ts, ",")) : ts \in TokenArrays}
      \cup {Map(<<>>), Map(<<Entry(<<"a">>, Desc)>>),
            Map(<<Entry(<<"b">>, Asc), Entry(<<"a">>, Desc)>>)}

\* the values of an order or sort option and of a schema's defaultOrder
OptionOrders == {Undefined, NullOrder, Number, Str(<<>>), Str(<<"-", "a">>),
                 Arr(<<>>), Arr(<< <<"b">> >>), Map(<<Entry(<<"a">>, Desc)>>)}

HelperOpts ==
    {NoOpts} \cup
    {Opts(TRUE, order, sort, FALSE, NoSkip, FALSE, NoLimit) :
        order \in OptionOrders, sort \in OptionOrders}

CallBuildOrder ==
    /\ helperCall.fn = "none"
    /\ \E order \in Orders :
        /\ helperCall' = HelperCall("buildOrder", order, NoOpts, Undefined)
        /\ helperResult' = Built(buildOrder(order), NoOpts)
        /\ UNCHANGED <<envVars, nearVars, callVars, sideVars, poolVars,
                       service>>

CallBuildSortOptions ==
    /\ helperCall.fn = "none"
    /\ \E o \in HelperOpts, dOrder \in OptionOrders :
        /\ helperCall' = HelperCall("buildSortOptions", Undefined, o, dOrder)
        /\ helperResult' = buildSortOptions(dOrder, o)
        /\ UNCHANGED <<envVars, nearVars, callVars, sideVars, poolVars,
                       service>>

\* the helper returned: the caller makes its next call
HelperReturn ==
    /\ helperCall.fn # "none"
    /\ helperCall' = HelperCall("none", Undefined, NoOpts, Undefined)
    /\ helperResult' = Built(Undefined, NoOpts)
    /\ UNCHANGED <<envVars, nearVars, callVars, sideVars, poolVars, service>>

HelpersNext == CallBuildOrder \/ CallBuildSortOptions \/ HelperReturn

-----------------------------------------------------------------------------
(* The proximity reads against the contents of the collection.             *)

\* a location sample: the primary key of its actor, its distance from the
\* query point, its status and its activity
Samples == [key : {"p1", "p2"}, distance : {1, 2}, status : {0, 1},
            activity : {"v", "w"}]

Collections == {c \in SUBSET Samples : Cardinality(c) <= MaxSamples}

\* geoParams.maxDistance || undefined: a missing or zero distance sets no bound
NoDistance == 0

AroundArgs(maxDistance, minDistance, activity) ==
    [maxDistance |-> maxDistance, minDistance |-> minDistance,
     activity |-> activity]

AroundArgSets ==
    {AroundArgs(mx, mn, act) : mx \in {NoDistance, 1}, mn \in {NoDistance, 2},
                               act \in {NULL, "v"}}

\* the $geoNear stage: the samples inside the ring that match the query
geoNear(coll, args) ==
    {d \in coll :
        /\ args.maxDistance # NoDistance => d.distance <= args.maxDistance
        /\ args.minDistance # NoDistance => d.distance >= args.minDistance
        /\ findAroundQuery(args.activity).d.a # ABSENT
             => d.activity = findAroundQuery(args.activity).d.a}

\* $sort: {distance: -1, status: -1}
RanksBefore(x, y) ==
    \/ x.distance > y.distance
    \/ x.distance = y.distance /\ x.status > y.status

Orderings(S) ==
    {q \in [1..Cardinality(S) -> S] : \A i, j \in 1..Cardinality(S) :
                                          q[i] = q[j] => i = j}

\* the orders the $sort stage can emit: ties are in no particular order
sortStage(S) ==
    {q \in Orderings(S) : \A i, j \in 1..Len(q) :
                              i < j => ~RanksBefore(q[j], q[i])}

Row(id, activity) == [id |-> id, activity |-> activity]

FirstOf(q, key) ==
    q[CHOOSE i \in 1..Len(q) :
          q[i].key = key /\ \A j \in 1..(i - 1) : q[j].key # key]

\* a stage that passes every document on as a group of its own
groupEach(q) == {Row(q[i].key, q[i]) : i \in 1..Len(q)}

\* $group: {_id: '$' + primaryKey, activity: {$first: '$$ROOT'}}
groupStage(q) ==
    {Row(key, FirstOf(q, key)) : key \in {q[i].key : i \in 1..Len(q)}}

\* aggregate(queryData): $group emits its groups in no particular order
aggregate(coll, args) ==
    UNION {[sorted : {q}, rows : Orderings(groupStage(q))] :
              q \in sortStage(geoNear(coll, args))}

\* the read was not answered yet
Unanswered == [done |-> FALSE, sorted |-> <<>>, response |-> <<>>]

\* findManyAround: every row's activity, in the order of the rows
ManyAroundResolved ==
    /\ ~manyAnswer.done
    /\ \E run \in aggregate(samples, aroundArgs) :
        manyAnswer' =
            [done |-> TRUE, sorted |-> run.sorted,
             response |-> [i \in 1..Len(run.rows) |-> run.rows[i].activity]]
    /\ UNCHANGED <<samples, aroundArgs, oneAnswer, envVars, sortVars,
                   callVars, sideVars, poolVars, service>>

\* findOneAround: limit(1), then the first row's activity or null (here the
\* empty response)
OneAroundResolved ==
    /\ ~oneAnswer.done
    /\ \E run \in aggregate(samples, aroundArgs) :
        LET results == SubSeq(run.rows, 1, Min(AroundLimit, Len(run.rows)))
        IN  oneAnswer' =
                [done |-> TRUE, sorted |-> run.sorted,
                 response |-> IF Len(results) > 0
                                THEN <<results[1].activity>> ELSE <<>>]
    /\ UNCHANGED <<samples, aroundArgs, manyAnswer, envVars, sortVars,
                   callVars, sideVars, poolVars, service>>

AroundNext == ManyAroundResolved \/ OneAroundResolved

-----------------------------------------------------------------------------
(* The service layer: a response method chains its handlers on the promise *)
(* of an adapter call and answers the caller's result callback.            *)

\* the response methods the service methods are built on
Responses == {"responseDefault", "responseOne", "responseGetOne",
              "responseMany", "responsePagination"}

\* what an adapter call hands to the response method: it threw, or it
\* returned a promise that resolves with data or null, is rejected, or
\* never settles
Prom(st, v) == [st |-> st, v |-> v]
Proms == {Prom("thrown", "none"), Prom("pending", "none")}
           \cup {Prom("resolved", d) : d \in {"value", "null"}}
           \cup {Prom("rejected", e) : e \in StoreErrors}

\* a service call: its position in the chain, the error travelling down the
\* chain, the invocations of the result callback so far, and how it ended
Service(p, fn, prom, err, calls, end) ==
    [pc |-> p, fn |-> fn, prom |-> prom, err |-> err, calls |-> calls,
     end |-> end]

ServiceIdle ==
    Service("idle", "none", Prom("pending", "none"), "none", <<>>, "none")

\* the then handler: what it answers with, or the TypeError of reading a
\* property of null
ThenAnswer(fn, data) ==
    IF data = "null" /\ fn \in {"responseOne", "responsePagination"}
      THEN "TypeError"
    ELSE IF data = "null" /\ fn = "responseGetOne" THEN "error"
    ELSE "value"

\* the catch handler an error raised in the then handler reaches first
Route(e) == IF e = "MongoError" THEN "catchMongo" ELSE "catchAny"

\* result(...) is invoked; thrown is what the callback throws, if anything,
\* and next the handler that error reaches
Invoke(s, kind, thrown, next) ==
    IF thrown = "none"
      THEN [s EXCEPT !.calls = Append(@, kind), !.pc = "done",
                     !.end = "returned"]
    ELSE IF next = "none"
      THEN [s EXCEPT !.calls = Append(@, kind), !.pc = "done",
                     !.err = thrown, !.end = "unhandled"]
      ELSE [s EXCEPT !.calls = Append(@, kind), !.pc = next, !.err = thrown]

\* what the caller's callback can throw
CallbackThrows == {"none"} \cup StoreErrors

\* a service method: the adapter method is called, then the response method
ServiceCall ==
    /\ service.pc = "idle"
    /\ \E fn \in Responses, prom \in Proms :
        service' =
            IF prom.st \in {"thrown", "pending"}
              THEN Service("done", fn, prom, "none", <<>>, prom.st)
              ELSE Service("waiting", fn, prom, "none", <<>>, "none")
    /\ UNCHANGED <<envVars, sortVars, nearVars, callVars, sideVars, poolVars>>

\* prom.then(data => ...)
PromResolved ==
    /\ service.pc = "waiting"
    /\ service.prom.st = "resolved"
    /\ LET a == ThenAnswer(service.fn, service.prom.v)
       IN  IF a = "TypeError"
             THEN service' = [service EXCEPT !.pc = "catchAny",
                                             !.err = "OtherError"]
             ELSE \E thrown \in CallbackThrows :
                      service' = Invoke(service, a, thrown, Route(thrown))
    /\ UNCHANGED <<envVars, sortVars, nearVars, callVars, sideVars, poolVars>>

\* the adapter's promise is rejected: the error goes down the chain
PromRejected ==
    /\ service.pc = "waiting"
    /\ service.prom.st = "rejected"
    /\ service' = [service EXCEPT !.pc = Route(service.prom.v),
                                  !.err = service.prom.v]
    /\ UNCHANGED <<envVars, sortVars, nearVars, callVars, sideVars, poolVars>>

\* .catch(MongoError, err => self.responseError(err, result))
CatchMongoError ==
    /\ service.pc = "catchMongo"
    /\ \E thrown \in CallbackThrows :
           service' = Invoke(service, "error", thrown, "catchAny")
    /\ UNCHANGED <<envVars, sortVars, nearVars, callVars, sideVars, poolVars>>

\* .catch(e => self.catchException(e, result)): rethrown in debug mode,
\* answered through responseError otherwise
CatchAny ==
    /\ service.pc = "catchAny"
    /\ IF isDebug
         THEN service' = [service EXCEPT !.pc = "done", !.end = "unhandled"]
         ELSE \E thrown \in CallbackThrows :
                  service' = Invoke(service, "error", thrown, "none")
    /\ UNCHANGED <<envVars, sortVars, nearVars, callVars, sideVars, poolVars>>

\* the caller makes its next service call
ServiceReturn ==
    /\ service.pc = "done"
    /\ service' = ServiceIdle
    /\ UNCHANGED <<envVars, sortVars, nearVars, callVars, sideVars, poolVars>>

ServiceNext ==
    \/ ServiceCall \/ PromResolved \/ PromRejected
    \/ CatchMongoError \/ CatchAny \/ ServiceReturn

-----------------------------------------------------------------------------
(* The pool.                                                               *)

Keys == {"default", "other"}
NoHandle == 0
Calls == 0..MaxCalls

PoolInit ==
    /\ dbs = [k \in Keys |-> NoHandle]
    /\ conns = [c \in Calls |->
                  IF c = 0 THEN [st |-> "connecting", key |-> "default", h |-> NoHandle]
                  ELSE [st |-> "new", key |-> "default", h |-> NoHandle]]
    /\ clientConnects = [k \in Keys |-> IF k = "default" THEN 1 ELSE 0]

-----------------------------------------------------------------------------
(* The specification of the adapter.                                       *)

IdleCall ==
    /\ pc = "idle"
    /\ op = "none"
    /\ queryParams = Undef
    /\ predSource = "none"
    /\ formId = ABSENT
    /\ opts = NoOpts
    /\ defaultOrder = Undefined
    /\ answer = NoAnswer
    /\ requestDoc = NoBody
    /\ entityId = ABSENT
    /\ events = <<>>
    /\ cmds = <<>>
    /\ logs = <<>>
    /\ outcome = "none"
    /\ result = NoResult
    /\ primary = "none"
    /\ logTask = "none"
    /\ indexTask = "none"

\* no helper was called yet
HelpersIdle ==
    /\ helperCall = HelperCall("none", Undefined, NoOpts, Undefined)
    /\ helperResult = Built(Undefined, NoOpts)

Init ==
    /\ isDebug \in BOOLEAN
    /\ hasToQueryObject \in BOOLEAN
    /\ hasBeforeSave \in BOOLEAN
    /\ IdleCall
    /\ PoolInit
    /\ HelpersIdle
    /\ samples = {}
    /\ aroundArgs = AroundArgs(NoDistance, NoDistance, NULL)
    /\ manyAnswer = Unanswered
    /\ oneAnswer = Unanswered
    /\ service = ServiceIdle

\* the caller makes its next call
Return ==
    /\ pc = "done"
    /\ pc' = "idle"
    /\ op' = "none"
    /\ queryParams' = Undef
    /\ predSource' = "none"
    /\ formId' = ABSENT
    /\ opts' = NoOpts
    /\ defaultOrder' = Undefined
    /\ answer' = NoAnswer
    /\ requestDoc' = NoBody
    /\ entityId' = ABSENT
    /\ events' = <<>>
    /\ cmds' = <<>>
    /\ logs' = <<>>
    /\ outcome' = "none"
    /\ result' = NoResult
    /\ primary' = "none"
    /\ logTask' = "none"
    /\ indexTask' = "none"
    /\ UNCHANGED <<envVars, libVars, poolVars>>

Next ==
    \/ insertOne \/ updateOne \/ updateOneSimple \/ updateMany \/ updateAll
    \/ updateAllSimple \/ updateManySimple \/ upsertOne \/ getOne
    \/ getOneSimple \/ getMany \/ getOneAndUpdate \/ getOneAndUpsert
    \/ exists \/ deleteOne \/ deleteOneSimple \/ deleteMany
    \/ deleteManySimple \/ deleteAll
    \/ proxUpsertOne \/ findManyAround \/ findOneAround
    \/ QueryConnected \/ WrappedConnected \/ AroundConnected
    \/ ProxUpsertConnected \/ ConnectFailed
    \/ StoreResolved \/ StoreRejected
    \/ LogConnected \/ LogConnectFailed \/ LogInserted \/ LogInsertFailed
    \/ IndexCreated \/ IndexFailed
    \/ Return

Spec == Init /\ [][Next]_vars


-----------------------------------------------------------------------------
(* The specification of the pool: connect calls on the shared MongoDB      *)
(* instance, interleaved with the completions of MongoClient.connect.      *)
(* Call 0 is the connect('default') issued by the constructor.             *)

Conn(st, key, h) == [st |-> st, key |-> key, h |-> h]

\* connect(name): the promise executor runs at once; a cached handle is
\* resolved, otherwise MongoClient.connect is invoked
PoolConnect(c, key) ==
    /\ conns[c].st = "new"
    /\ IF dbs[key] # NoHandle
         THEN /\ conns' = [conns EXCEPT ![c] = Conn("resolved", key, dbs[key])]
              /\ UNCHANGED clientConnects
         ELSE /\ conns' = [conns EXCEPT ![c] = Conn("connecting", key, NoHandle)]
              /\ clientConnects' =
                   [clientConnects EXCEPT ![key] = clientConnects[key] + 1]
    /\ UNCHANGED <<dbs, envVars, libVars, callVars, sideVars>>

\* MongoClient.connect resolved with a new handle: it is cached and resolved
ClientConnected(c) ==
    /\ conns[c].st = "connecting"
    /\ dbs' = [dbs EXCEPT ![conns[c].key] = c + 1]
    /\ conns' = [conns EXCEPT ![c] = Conn("resolved", conns[c].key, c + 1)]
    /\ UNCHANGED <<clientConnects, envVars, libVars, callVars, sideVars>>

\* MongoClient.connect rejected: a MongoError is rejected; any other error
\* is rethrown in debug mode, so the promise never settles
ClientFailed(c, e) ==
    /\ conns[c].st = "connecting"
    /\ conns' = [conns EXCEPT ![c] =
           Conn(IF e = "OtherError" /\ isDebug THEN "pending" ELSE "rejected",
                conns[c].key, NoHandle)]
    /\ UNCHANGED <<dbs, clientConnects, envVars, libVars, callVars, sideVars>>

PoolNext ==
    \/ \E c \in Calls, key \in Keys : PoolConnect(c, key)
    \/ \E c \in Calls : ClientConnected(c)
    \/ \E c \in Calls, e \in StoreErrors : ClientFailed(c, e)

PoolSpec == Init /\ [][PoolNext]_vars

-----------------------------------------------------------------------------
(* The adapter under the scheduling the runtime gives: a connect() that    *)
(* was started settles, and a command that was issued is answered.         *)

Settle ==
    \/ QueryConnected \/ WrappedConnected \/ AroundConnected
    \/ ProxUpsertConnected \/ ConnectFailed
    \/ StoreResolved \/ StoreRejected

LiveSpec == Init /\ [][Next]_vars /\ WF_vars(Settle)

-----------------------------------------------------------------------------
(* The specification of MongoHelpers: its functions applied to the order   *)
(* and option values a caller can pass.                                    *)

HelpersSpec == Init /\ [][HelpersNext]_vars

-----------------------------------------------------------------------------
(* The specification of the service layer: service calls on every outcome  *)
(* of the adapter call, with a result callback that may throw.             *)

ServiceSpec == Init /\ [][ServiceNext]_vars

-----------------------------------------------------------------------------
(* The specification of the proximity reads: findManyAround and            *)
(* findOneAround answered against one geo query and one state of the       *)
(* collection.                                                             *)

AroundInit ==
    /\ isDebug \in BOOLEAN
    /\ hasToQueryObject \in BOOLEAN
    /\ hasBeforeSave \in BOOLEAN
    /\ IdleCall
    /\ PoolInit
    /\ HelpersIdle
    /\ samples \in Collections
    /\ aroundArgs \in AroundArgSets
    /\ manyAnswer = Unanswered
    /\ oneAnswer = Unanswered
    /\ service = ServiceIdle

AroundSpec == AroundInit /\ [][AroundNext]_vars


-----------------------------------------------------------------------------
(* Properties.                                                             *)

Range(q) == {q[i] : i \in 1..Len(q)}

\* the operations that update or delete existing documents
MutatingOps == {"updateOne", "updateOneSimple", "updateMany",
                "updateManySimple", "updateAll", "updateAllSimple",
                "upsertOne", "getOneAndUpdate", "getOneAndUpsert",
                "deleteOne", "deleteOneSimple", "deleteMany",
                "deleteManySimple", "deleteAll"}

\* the operations that write a request document
WriteOps == {"insertOne", "updateOne", "updateOneSimple", "updateMany",
             "updateManySimple", "updateAll", "updateAllSimple", "upsertOne",
             "proxUpsertOne", "getOneAndUpdate", "getOneAndUpsert"}

\* the commands a call issues for its own result (not the side effects)
PrimaryCmds == {i \in 1..Len(cmds) :
                  cmds[i].coll = "main" /\ cmds[i].fn # "createIndex"}
LogCmds     == {i \in 1..Len(cmds) : cmds[i].coll = "log"}
IndexCmds   == {i \in 1..Len(cmds) : cmds[i].fn = "createIndex"}

EmptyBody(b) ==
    \/ b.kind \in {"insert", "set"} /\ isEmptyDoc(b.doc)
    \/ b.kind = "upsert" /\ isEmptyUpsert(b.up)

\* the call went past its guards: it did not throw, and the guard inside
\* the connect callback of getMany and exists did not fail either
PassedGuards ==
    /\ pc # "idle"
    /\ outcome # "thrown"
    /\ ~(op \in WrappedOps /\ isEmpty(queryParams))

\* C1: no update or delete command reaches the store with an empty filter:
\* an updating or deleting call whose resolved predicate is empty has thrown
\* a guard violation and issued nothing.
C1_NoEmptyFilter ==
    op \in MutatingOps =>
        /\ \A i \in PrimaryCmds : ~isEmpty(cmds[i].filter)
        /\ (pc \in {"issued", "done"} /\ isEmpty(queryParams)) =>
               (outcome = "thrown" /\ cmds = <<>>)

\* C2: no write command reaches the store with an empty request document
\* (empty insert document, empty $set body, empty upsert document): a write
\* whose derived request document is empty has thrown and issued nothing.
C2_NoEmptyDocument ==
    op \in WriteOps =>
        /\ \A i \in 1..Len(cmds) : ~EmptyBody(cmds[i].body)
        /\ (pc \in {"issued", "done"} /\ EmptyBody(requestDoc)) =>
               (outcome = "thrown" /\ cmds = <<>>)

\* the call obtained its connection and reached the point of its command
Connected ==
    /\ "connectFailed" \notin Range(events)
    /\ result # Err("LogModelError")

C4_UpsertPredicateIsOnInsert ==
    op \in {"upsertOne", "proxUpsertOne"} =>
        \A i \in PrimaryCmds :
            /\ cmds[i].body.kind = "upsert"
            /\ cmds[i].hasFilter
            /\ cmds[i].filter = cmds[i].body.up.onInsert

\* an upsert command is in flight whose on-insert document holds a null
C4_Witness ==
    /\ op = "upsertOne"
    /\ pc = "issued"
    /\ Len(cmds) = 1
    /\ cmds[1].body.up.onInsert = Def([id |-> "k1", a |-> NULL])
    /\ cmds[1].filter = Def([id |-> "k1", a |-> NULL])

\* the value field of the envelope the store answered with
EnvelopeValue == IF answer.hasValue THEN DocValue ELSE Null

\* C5: getOneAndUpdate and getOneAndUpsert resolve to null when the envelope
\* has ok false and to the envelope's value (a document, or null when none
\* matched) otherwise.
C5_EnvelopeUnwrapped ==
    (op \in {"getOneAndUpdate", "getOneAndUpsert"} /\ outcome = "resolved") =>
        /\ ~answer.ok => result = Null
        /\ answer.ok => result = EnvelopeValue
        /\ result = Null <=> (~answer.ok \/ ~answer.hasValue)

\* the store answered ok false with a value: the caller got null
C5_Witness ==
    /\ op = "getOneAndUpsert"
    /\ outcome = "resolved"
    /\ ~answer.ok
    /\ answer.hasValue
    /\ result = Null

\* C6: exists resolves to a boolean, true exactly when the count under the
\* limit of 1 is greater than 0.
C6_ExistsIsBoundedCount ==
    (op = "exists" /\ outcome = "resolved") =>
        /\ result \in {Bool(TRUE), Bool(FALSE)}
        /\ result = Bool(TRUE) <=> answer.n > 0
        /\ answer.n <= ExistsLimit
        /\ cmds[1].limit = ExistsLimit

\* a matching document was counted: exists resolved to true
C6_Witness ==
    /\ op = "exists"
    /\ outcome = "resolved"
    /\ answer.n = 1
    /\ result = Bool(TRUE)

\* the operations that derive a predicate from an input form
FormOps == {"getOne", "getMany", "exists", "deleteOne", "deleteMany",
            "updateOne", "updateMany", "getOneAndUpdate", "getOneAndUpsert"}

\* the operations whose code looks at the identifier of the form
IdentityOps == {"getOne", "exists", "deleteOne"}

\* C7 as stated: in every operation that derives its predicate from a form,
\* a form carrying an identifier yields the equality predicate on the
\* parsed identifier, and neither projection is used.
C7_IdentityEverywhere ==
    (op \in FormOps /\ Truthy(formId)) =>
        /\ predSource = "identity"
        /\ queryParams = Def([id |-> ObjectID(formId), a |-> ABSENT])

\* C7 as amended: getOne, exists and deleteOne resolve a form with a
\* non-empty identifier to the equality predicate on the parsed identifier
\* and use no projection; getMany, deleteMany, updateOne, updateMany,
\* getOneAndUpdate and getOneAndUpsert never look at the identifier: their
\* predicate is the schema's query projection when the schema has one, and
\* otherwise the fallback projection, which carries the identifier unparsed.
C7_IdentityResolution ==
    /\ (op \in IdentityOps /\ Truthy(formId)) =>
           /\ predSource = "identity"
           /\ queryParams = Def([id |-> ObjectID(formId), a |-> ABSENT])
    /\ (op \in FormOps \ IdentityOps) =>
           /\ predSource = IF hasToQueryObject THEN "schema" ELSE "fallback"
           /\ (predSource = "fallback" /\ Truthy(formId)) =>
                  queryParams.d.id = formId

\* deleteOne by identifier is in flight with the parsed identifier
C7_Witness ==
    /\ op = "deleteOne"
    /\ pc = "issued"
    /\ formId = "k2"
    /\ hasToQueryObject
    /\ cmds[1].filter = Def([id |-> "ObjectID(k2)", a |-> ABSENT])


\* C8: the client connect is invoked at most once per configuration key
\* under any interleaving of connect calls, and all calls for a key
\* resolve to the same handle.
C8_SingleConnectPerKey ==
    /\ \A k \in Keys : clientConnects[k] <= 1
    /\ \A c1, c2 \in Calls :
           (/\ conns[c1].st = "resolved"
            /\ conns[c2].st = "resolved"
            /\ conns[c1].key = conns[c2].key) => conns[c1].h = conns[c2].h

LoggedError(about) ==
    \E l \in Range(logs) : l.level = "error" /\ l.about = about

\* C9: the promise of the proximity upsertOne follows the primary upsert
\* command alone: it resolves exactly when that command succeeded, it is
\* rejected (once connected) only with that command's error, and a failed
\* activity-log insert or index creation is recorded in the log.
C9_PrimaryAlone ==
    op = "proxUpsertOne" =>
        /\ outcome = "resolved" <=> primary = "ok"
        /\ (outcome = "rejected" /\ "connectFailed" \notin Range(events)) =>
               (primary \in StoreErrors /\ result = Err(primary))
        /\ logTask = "failed" => LoggedError("log")
        /\ indexTask = "failed" => LoggedError("index")

\* C10: when the store rejects the command of an adapter operation, the
\* error is logged with the request and the caller's promise is rejected
\* with that error.
C10_StoreErrorLoggedAndRejected ==
    primary \in StoreErrors =>
        /\ outcome = "rejected"
        /\ result = Err(primary)
        /\ \E l \in Range(logs) :
               /\ l.level = "error"
               /\ l.about = "primary"
               /\ l.err = primary
               /\ l.ctx


\* a guard of the call failed: an assertion on the predicate or on the
\* request document threw
GuardFailed ==
    \/ result = Err("GuardViolation")
    \/ op \in WrappedOps /\ isEmpty(queryParams) /\ "query" \in Range(events)

\* C11: a guard failure is raised during the call itself: the call throws,
\* no connect() was started and no command was issued; getMany and exists
\* included.
C11_GuardsAreSynchronous ==
    GuardFailed =>
        /\ outcome = "thrown"
        /\ "connect" \notin Range(events)
        /\ cmds = <<>>

\* C12: the debug mode decides what becomes of a guard violation or of an
\* unexpected (non-store) error: with debug off it is logged and the
\* caller's promise is rejected with it, never thrown; only with debug on
\* does it propagate instead of rejecting.
C12_DebugDecidesConversion ==
    (pc = "done" /\ (GuardFailed \/ primary = "OtherError")) =>
        IF isDebug
          THEN outcome # "rejected"
          ELSE /\ outcome = "rejected"
               /\ result.t = "error"
               /\ \E l \in Range(logs) : l.level = "error"

\* the operations that project a freshly built model into the request
HookOps == {"insertOne", "updateOne", "updateMany", "updateAll", "upsertOne",
            "getOneAndUpdate", "getOneAndUpsert"}
\* those of them that insert or upsert
InsertingOps == {"insertOne", "upsertOne", "getOneAndUpsert"}
SimpleOps == {"updateOneSimple", "updateManySimple", "updateAllSimple",
              "getOneSimple", "deleteOneSimple", "deleteManySimple"}

HookEvents == {"beforeSave(true)", "beforeSave(false)"}
DeriveEvents == {"toInsertObject", "toFormObject", "toUpsertObject"}
Hooks == {i \in 1..Len(events) : events[i] \in HookEvents}

\* C17: on a schema with a pre-save hook every model-projected mutating
\* operation invokes the hook exactly once, before the request document is
\* derived, with the flag true for the insert and upsert operations and
\* false for the update operations; without a hook, and in the Simple
\* variants, it is never invoked.
C17_HookOncePerCall ==
    /\ (op \in HookOps /\ hasBeforeSave) =>
           /\ Cardinality(Hooks) = 1
           /\ \A i \in Hooks :
                  /\ events[i] = IF op \in InsertingOps
                                   THEN "beforeSave(true)"
                                   ELSE "beforeSave(false)"
                  /\ \E j \in 1..Len(events) :
                         j > i /\ events[j] \in DeriveEvents
                  /\ \A j \in 1..i : events[j] \notin DeriveEvents
    /\ (op \in SimpleOps \/ ~hasBeforeSave) => Hooks = {}

\* C18: the proximity upsertOne is the base upsertOne: the command it
\* issues is the command the base method issues for the same upsert
\* document, and it resolves to the entity the base method resolves to, the
\* identifier being the store's upserted identifier as a string when a
\* document was inserted and the entity's own otherwise.
C18_ProxUpsertIsBaseUpsert ==
    [][/\ (op = "proxUpsertOne" /\ pc = "connecting" /\ pc' = "issued") =>
             cmds'[1] = PrimaryCmd("upsertOne",
                                   UpsertPredicate(requestDoc'.up),
                                   requestDoc')
       /\ (op = "proxUpsertOne" /\ pc = "issued" /\ outcome' = "resolved") =>
             result' = UpsertEntity(answer', entityId)]_vars

\* C20: the promise of every adapter call that went on to connect()
\* eventually settles: it is resolved or rejected.
C20_EveryPromiseSettles ==
    [](pc = "connecting" => <>(outcome \in {"resolved", "rejected"}))


\* the samples the geo stage lets through
Candidates == geoNear(samples, aroundArgs)

\* C13: findManyAround returns at most one result per primary key, one for
\* every key among the candidates of the geo stage, and the result kept for
\* a key is the first candidate of that key in the order the sort stage
\* produced: no candidate of the same key ranks before it.
C13_OneResultPerKey ==
    manyAnswer.done =>
        LET r == manyAnswer.response
            q == manyAnswer.sorted
        IN  /\ Range(q) = Candidates
            /\ \A i, j \in 1..Len(q) : i < j => ~RanksBefore(q[j], q[i])
            /\ \A i, j \in 1..Len(r) : r[i].key = r[j].key => i = j
            /\ {r[i].key : i \in 1..Len(r)} = {d.key : d \in Candidates}
            /\ \A i \in 1..Len(r) :
                   /\ \E n \in 1..Len(q) :
                          /\ q[n] = r[i]
                          /\ \A m \in 1..(n - 1) : q[m].key # r[i].key
                   /\ \A d \in Candidates :
                          d.key = r[i].key => ~RanksBefore(d, r[i])

\* two samples of one key lie inside the radius: one result came back
C13_Witness ==
    /\ manyAnswer.done
    /\ aroundArgs.maxDistance # NoDistance
    /\ Cardinality(Candidates) = 2
    /\ \A d, e \in Candidates : d.key = e.key
    /\ Len(manyAnswer.response) = 1

\* C14: for the same query and the same contents findOneAround resolves to
\* null (the empty response) when there is no candidate and otherwise to
\* the element findManyAround has at the first position of its list.
C14_OneIsFirstOfMany ==
    (manyAnswer.done /\ oneAnswer.done) =>
        IF Candidates = {}
          THEN oneAnswer.response = <<>>
          ELSE oneAnswer.response = <<manyAnswer.response[1]>>

\* an option is present when it holds a value the code takes for one: not
\* undefined, not null, not the empty string
Present(o) == TruthyOrder(o)

\* the caller's options with the order option removed
WithoutOrder(o) ==
    Opts(o.def, Undefined, o.sort, o.hasSkip, o.skip, o.hasLimit, o.limit)

\* C15: buildSortOptions returns the order built from the order option if
\* present, else from the sort option if present, else from the schema's
\* default, else null; the order option is removed from the options object
\* when it was used and the object is left as it was in every other case.
C15_SortPrecedence ==
    helperCall.fn = "buildSortOptions" =>
        LET o == helperCall.opts
            d == helperCall.dOrder
            r == helperResult
        IN  /\ Present(o.order) =>
                   r = Built(buildOrder(o.order), WithoutOrder(o))
            /\ (~Present(o.order) /\ Present(o.sort)) =>
                   r = Built(buildOrder(o.sort), o)
            /\ (~Present(o.order) /\ ~Present(o.sort) /\ Present(d)) =>
                   r = Built(buildOrder(d), o)
            /\ (~Present(o.order) /\ ~Present(o.sort) /\ ~Present(d)) =>
                   r = Built(NullOrder, o)

\* order, sort and default were all given: the order option won and is gone
C15_Witness ==
    /\ helperCall.fn = "buildSortOptions"
    /\ helperCall.opts.order = Str(<<"-", "a">>)
    /\ helperCall.opts.sort = Arr(<< <<"b">> >>)
    /\ helperCall.dOrder = Map(<<Entry(<<"a">>, Desc)>>)
    /\ helperResult.value = Map(<<Entry(<<"a">>, Desc)>>)
    /\ helperResult.opts.order = Undefined
    /\ helperResult.opts.sort = Arr(<< <<"b">> >>)

\* the field a token names and the direction it asks for
FieldOf(t)     == IF Descending(trim(t)) THEN Tail(trim(t)) ELSE trim(t)
DirectionOf(t) == IF Descending(trim(t)) THEN Desc ELSE Asc

\* m is the map of the tokens ts: one entry per field named, holding the
\* direction of the last token that names it, in the order of first naming
IsMapOf(m, ts) ==
    /\ {m[i].k : i \in 1..Len(m)} = {FieldOf(ts[j]) : j \in 1..Len(ts)}
    /\ \A i, j \in 1..Len(m) : m[i].k = m[j].k => i = j
    /\ \A i \in 1..Len(m) : \E j \in 1..Len(ts) :
           /\ FieldOf(ts[j]) = m[i].k
           /\ DirectionOf(ts[j]) = m[i].v
           /\ \A n \in (j + 1)..Len(ts) : FieldOf(ts[n]) # m[i].k
    /\ \A i, j \in 1..Len(m) : i < j =>
           \E a \in 1..Len(ts) :
               /\ FieldOf(ts[a]) = m[i].k
               /\ \A b \in 1..a : FieldOf(ts[b]) # m[j].k

CommaFree(ts) == \A i \in 1..Len(ts) : \A n \in 1..Len(ts[i]) : ts[i][n] # ","

\* C16 as stated: undefined and null give null, a map is returned as it
\* is, and an array of tokens gives the map of its tokens, the same map as
\* the comma-joined string of the same tokens gives.
C16_BuildOrderAgrees ==
    helperCall.fn = "buildOrder" =>
        LET order == helperCall.order
            value == helperResult.value
        IN  /\ order.t \in {"undefined", "null"} => value = NullOrder
            /\ order.t = "object" => value = order
            /\ order.t = "array" =>
                   /\ value.t = "object"
                   /\ IsMapOf(value.m, order.ts)
                   /\ buildOrder(Str(join(order.ts, ","))) = value
            /\ order.t = "string" =>
                   \A ts \in TokenArrays :
                       join(ts, ",") = order.s => buildOrder(Arr(ts)) = value

\* C16 as amended: undefined, null and the empty string give null; a map is
\* returned as it is; an array of tokens gives the map of its tokens (the
\* empty array the empty map); a non-empty string gives the map of the
\* comma-free tokens it joins, so an array of comma-free tokens and its
\* comma-joined string give the same map whenever that string is not empty.
C16_BuildOrderAgreesOnTokens ==
    helperCall.fn = "buildOrder" =>
        LET order == helperCall.order
            value == helperResult.value
        IN  /\ order.t \in {"undefined", "null"} => value = NullOrder
            /\ order.t = "object" => value = order
            /\ order.t = "array" =>
                   /\ value.t = "object"
                   /\ IsMapOf(value.m, order.ts)
                   /\ (CommaFree(order.ts) /\ join(order.ts, ",") # <<>>) =>
                          buildOrder(Str(join(order.ts, ","))) = value
            /\ (order.t = "string" /\ order.s = <<>>) => value = NullOrder
            /\ (order.t = "string" /\ order.s # <<>>) =>
                   /\ value.t = "object"
                   /\ \A ts \in TokenArrays :
                          (CommaFree(ts) /\ join(ts, ",") = order.s) =>
                              /\ IsMapOf(value.m, ts)
                              /\ buildOrder(Arr(ts)) = value

\* the array of a plain and a descending token: both fields, both ways
C16_Witness ==
    /\ helperCall.fn = "buildOrder"
    /\ helperCall.order = Arr(<< <<" ", "a">>, <<"-", "b">> >>)
    /\ helperResult.value =
           Map(<<Entry(<<"a">>, Asc), Entry(<<"b">>, Desc)>>)
    /\ buildOrder(Str(<<" ", "a", ",", "-", "b">>)) = helperResult.value

\* the sort in effect for a call: the order option, else the sort option,
\* else the schema's default
EffectiveSort(o, d) ==
    IF Present(o.order) THEN buildOrder(o.order)
    ELSE IF Present(o.sort) THEN buildOrder(o.sort)
    ELSE IF Present(d) THEN buildOrder(d)
    ELSE NullOrder

\* C19: the command of getMany carries, before it is run, the effective
\* sort exactly when there is one, the skip exactly when a skip (other than
\* 0) was asked for and the limit exactly when a limit (other than 0) was
\* asked for; an option that was not given is not applied, and the list
\* that comes back respects the limit.
C19_CursorOptionsIffPresent ==
    (op = "getMany" /\ primary # "none") =>
        LET c == cmds[1]
            effective == EffectiveSort(opts, defaultOrder)
        IN  /\ "sort" \in c.applied <=> effective \notin {NullOrder, Undefined}
            /\ "sort" \in c.applied => c.sort = effective.m
            /\ "skip" \in c.applied <=> (opts.hasSkip /\ opts.skip > 0)
            /\ c.skip = IF "skip" \in c.applied THEN opts.skip ELSE NoSkip
            /\ "limit" \in c.applied <=> (opts.hasLimit /\ opts.limit > 0)
            /\ c.limit = IF "limit" \in c.applied THEN opts.limit ELSE NoLimit
            /\ (outcome = "resolved" /\ "limit" \in c.applied) =>
                   result.n <= opts.limit

\* getMany with an order, a sort, a skip and a limit resolved: the order
\* option made the sort, and skip and limit were set
C19_Witness ==
    /\ op = "getMany"
    /\ outcome = "resolved"
    /\ opts.order = Str(<<"-", "a">>)
    /\ opts.sort = Map(<<Entry(<<"b">>, Asc)>>)
    /\ opts.hasSkip /\ opts.skip = 1
    /\ opts.hasLimit /\ opts.limit = 1
    /\ cmds[1].applied = {"sort", "skip", "limit"}
    /\ cmds[1].sort = <<Entry(<<"a">>, Desc)>>
    /\ cmds[1].skip = 1
    /\ cmds[1].limit = 1


\* C21: every service call whose adapter promise settles (resolved,
\* rejected with a store error or rejected with another error) invokes the
\* caller's result callback exactly once: never a second time, and a
\* finished call has invoked it.
C21_CallbackExactlyOnce ==
    /\ Len(service.calls) <= 1
    /\ (service.pc = "done" /\ service.prom.st \in {"resolved", "rejected"})
           => Len(service.calls) = 1


\* event a comes before event b in the call
Precedes(a, b) ==
    \E i, j \in 1..Len(events) : i < j /\ events[i] = a /\ events[j] = b

\* C22 as stated: in the proximity upsertOne the activity-log insert is
\* issued to the store before the primary upsert command, whatever becomes
\* of that command, and the index creation is issued only after the primary
\* command succeeded.
C22_LogInsertBeforePrimary ==
    op = "proxUpsertOne" =>
        /\ primary # "none" =>
               \E i \in LogCmds : \A j \in PrimaryCmds : i < j
        /\ IndexCmds # {} <=> primary = "ok"
        /\ \A i \in IndexCmds : \A j \in PrimaryCmds : j < i

\* C22 as amended: the proximity upsertOne starts the activity-log write
\* (the call of the log adapter's query) before it issues the primary
\* upsert command, and starts it whatever becomes of that command; the log
\* insert command itself reaches the store only once the log adapter's own
\* connect has resolved, which is after the primary command was issued, and
\* never if that connect fails.  The index creation is issued exactly when
\* the primary command succeeded, and after it.
C22_SideWriteOrdering ==
    op = "proxUpsertOne" =>
        /\ primary # "none" =>
               /\ logTask # "none"
               /\ Precedes("logQuery", "command")
        /\ logTask # "none" => primary # "none"
        /\ \A i \in LogCmds : \A j \in PrimaryCmds : j < i
        /\ LogCmds # {} => logTask \in {"issued", "ok", "failed"}
        /\ logTask = "connectFailed" => LogCmds = {}
        /\ IndexCmds # {} <=> primary = "ok"
        /\ indexTask # "none" <=> primary = "ok"
        /\ \A i \in IndexCmds : \A j \in PrimaryCmds : j < i

\* the primary command failed: the log insert followed it, no index creation
C22_Witness ==
    /\ op = "proxUpsertOne"
    /\ pc = "done"
    /\ primary \in StoreErrors
    /\ Len(cmds) = 2
    /\ cmds[1].fn = "updateOne"
    /\ cmds[2].coll = "log"
    /\ indexTask = "none"

====
